---- MODULE Spec2Model ----
(***************************************************************************)
(* CBC Smart Study Assistant backend: the two deployable variants           *)
(*   "rich"   : src/unnamed/part_000 (validator, four generating POST       *)
(*              endpoints, rate limiter on /api/, startup credential check) *)
(*   "simple" : src/server.js (POST /api/gemini only)                       *)
(* A text is a sequence of pieces; a piece is either one whitespace         *)
(* character or a run of non-whitespace characters.  A JSON/JS value is a   *)
(* record [type, val] whose val is always a text.                           *)
(***************************************************************************)
EXTENDS Integers, Sequences, FiniteSets, TLC

VARIABLES variant, apiKey, server, hits, reqs

vars == <<variant, apiKey, server, hits, reqs>>

----------------------------------------------------------------------------
(* Bounds of the model *)

\* longest topic text drawn, in pieces
MaxTopicLen == 2

\* request slots that can be in flight together in the concurrent specification
MaxInFlight == 2

(* Program constants *)

\* rateLimit({ max: 100 }): requests of one client counted per window
LimiterMax == 100

----------------------------------------------------------------------------
(* JS values *)

Undefined == [type |-> "undefined", val |-> <<>>]

Null == [type |-> "null", val |-> <<>>]

Str(t) == [type |-> "string", val |-> t]

Num(d) == [type |-> "number", val |-> <<d>>]

Bool(b) == [type |-> "boolean", val |-> <<b>>]

Obj == [type |-> "object", val |-> <<"{}">>]

Arr == [type |-> "array", val |-> <<"[]">>]

\* typeof v
TypeOf(v) ==
  CASE v.type = "undefined" -> "undefined"
    [] v.type = "string"    -> "string"
    [] v.type = "number"    -> "number"
    [] v.type = "boolean"   -> "boolean"
    [] OTHER                -> "object"

\* ToBoolean(v): what !v, v && ..., v || ... test
Truthy(v) ==
  CASE v.type = "undefined" -> FALSE
    [] v.type = "null"      -> FALSE
    [] v.type = "string"    -> v.val # <<>>
    [] v.type = "number"    -> v.val # <<"0">>
    [] v.type = "boolean"   -> v.val = <<"true">>
    [] OTHER                -> TRUE

\* ToString(v) inside a template literal
ToText(v) ==
  CASE v.type = "undefined" -> <<"undefined">>
    [] v.type = "null"      -> <<"null">>
    [] v.type = "object"    -> <<"[object", " ", "Object]">>
    [] v.type = "array"     -> <<>>
    [] OTHER                -> v.val

WS == {" ", "\t"}

RECURSIVE TrimStart(_)
TrimStart(t) ==
  IF t # <<>> /\ Head(t) \in WS THEN TrimStart(Tail(t)) ELSE t

RECURSIVE TrimEnd(_)
TrimEnd(t) ==
  IF t # <<>> /\ t[Len(t)] \in WS THEN TrimEnd(SubSeq(t, 1, Len(t) - 1)) ELSE t

\* String.prototype.trim on a text
Trim(t) == TrimEnd(TrimStart(t))

\* v.trim(): defined for strings only; anything else has no trim method
HasTrim(v) == v.type = "string"

\* default value of a destructuring pattern: applies to undefined only
Default(v, d) == IF v = Undefined THEN d ELSE v

\* a || d
OrElse(v, d) == IF Truthy(v) THEN v ELSE d

RECURSIVE Join(_, _)
\* Array.prototype.join
Join(s, sep) ==
  IF s = <<>> THEN <<>>
  ELSE IF Len(s) = 1 THEN <<s[1]>>
  ELSE <<s[1], sep>> \o Join(Tail(s), sep)

\* Array.prototype.includes on an array of strings
Includes(s, v) == v.type = "string" /\ \E i \in 1..Len(s) : <<s[i]>> = v.val

----------------------------------------------------------------------------
(* Static reference data *)

\* Object.keys(grades), in insertion order
GradeKeys ==
  <<"pp1", "pp2", "grade1", "grade2", "grade3", "grade4", "grade5", "grade6",
    "grade7", "grade8", "grade9", "grade10", "grade11", "grade12">>

GradeCodes == {GradeKeys[i] : i \in 1..Len(GradeKeys)}

\* the grades table: code -> display label
grades ==
  [c \in GradeCodes |->
     CASE c = "pp1"     -> "Pre-Primary 1"
       [] c = "pp2"     -> "Pre-Primary 2"
       [] c = "grade1"  -> "Grade 1"
       [] c = "grade2"  -> "Grade 2"
       [] c = "grade3"  -> "Grade 3"
       [] c = "grade4"  -> "Grade 4"
       [] c = "grade5"  -> "Grade 5"
       [] c = "grade6"  -> "Grade 6"
       [] c = "grade7"  -> "Grade 7"
       [] c = "grade8"  -> "Grade 8"
       [] c = "grade9"  -> "Grade 9"
       [] c = "grade10" -> "Grade 10"
       [] c = "grade11" -> "Grade 11"
       [] c = "grade12" -> "Grade 12"]

\* grades[grade]: the label of an own key, undefined for anything else
GradeLookup(grade) ==
  IF grade.type = "string" /\ Len(grade.val) = 1 /\ grade.val[1] \in GradeCodes
  THEN Str(<<grades[grade.val[1]]>>)
  ELSE Undefined

ContentTypes == <<"lesson-summary", "quiz", "activity", "assessment", "explanation">>

Languages == <<"English", "Kiswahili">>

\* GET /api/metadata: data.supportedGrades
MetadataSupportedGrades == GradeKeys

----------------------------------------------------------------------------
(* Responses *)

NoData ==
  [topic |-> Undefined, grade |-> Undefined, gradeLabel |-> Undefined,
   subject |-> Undefined, contentType |-> Undefined, language |-> Undefined,
   content |-> Undefined, question |-> Undefined,
   startGrade |-> Undefined, endGrade |-> Undefined]

\* no response sent yet
NoResp ==
  [status |-> 0, kind |-> "none", success |-> Undefined, error |-> Undefined,
   details |-> Undefined, output |-> Undefined, data |-> NoData]

\* res.status(s).json({ success: false, error, details? })
Failure(s, error, details) ==
  [NoResp EXCEPT !.status = s, !.kind = "json", !.success = Bool("false"),
                 !.error = Str(error), !.details = details]

\* res.json({ success: true, data })
Success(data) ==
  [NoResp EXCEPT !.status = 200, !.kind = "json", !.success = Bool("true"),
                 !.data = data]

\* res.status(s).json({ error }) of the simple variant
SimpleError(s, error) ==
  [NoResp EXCEPT !.status = s, !.kind = "json", !.error = Str(error)]

\* res.json({ output }) of the simple variant
SimpleOutput(text) ==
  [NoResp EXCEPT !.status = 200, !.kind = "json", !.output = text]

\* the limiter's rejection: status 429, the configured message as plain text
TooManyRequests ==
  [NoResp EXCEPT !.status = 429, !.kind = "text",
     !.output = Str(<<"Too many requests from this IP, please try again later.">>)]

\* outcomes of a synchronous stretch of code
Respond(resp) == [kind |-> "respond", resp |-> resp, prompt |-> Undefined, message |-> <<>>]

Call(prompt) == [kind |-> "call", resp |-> NoResp, prompt |-> prompt, message |-> <<>>]

Throw(message) == [kind |-> "throw", resp |-> NoResp, prompt |-> Undefined, message |-> message]

Next_ == [kind |-> "next", resp |-> NoResp, prompt |-> Undefined, message |-> <<>>]

----------------------------------------------------------------------------
(* Rich variant: validator and prompt composer *)

InvalidTopic == Failure(400, <<"Topic is required and must be a non-empty string">>, Undefined)

InvalidGrade ==
  Failure(400, <<"Grade must be one of: ">> \o Join(GradeKeys, ", "), Undefined)

InvalidSubject == Failure(400, <<"Subject must be a string">>, Undefined)

InvalidContentType ==
  Failure(400,
    <<"Content type must be: lesson-summary, quiz, activity, assessment, or explanation">>,
    Undefined)

InvalidLanguage == Failure(400, <<"Language must be: English or Kiswahili">>, Undefined)

\* mutant of TopicRejected: the trimmed length is not looked at
TopicRejectedNoTrim(topic) == ~Truthy(topic) \/ TypeOf(topic) # "string"

\* !topic || typeof topic !== "string" || topic.trim().length === 0
TopicRejected(topic) ==
  \/ ~Truthy(topic)
  \/ TypeOf(topic) # "string"
  \/ Len(Trim(topic.val)) = 0

\* mutant of GradeRejected: only presence is checked
GradeRejectedWhenMissing(grade) == ~Truthy(grade)

\* !grade || !Object.keys(grades).includes(grade)
GradeRejected(grade) == ~Truthy(grade) \/ ~Includes(GradeKeys, grade)

\* subject && typeof subject !== "string"
SubjectRejected(subject) == Truthy(subject) /\ TypeOf(subject) # "string"

\* !contentType || ![...].includes(contentType)
ContentTypeRejected(contentType) ==
  ~Truthy(contentType) \/ ~Includes(ContentTypes, contentType)

\* !language || !["English", "Kiswahili"].includes(language)
LanguageRejected(language) == ~Truthy(language) \/ ~Includes(Languages, language)

\* the middleware: first failing rule answers 400, otherwise next()
validateGenerateRequest(body) ==
  IF TopicRejected(body.topic) THEN Respond(InvalidTopic)
  ELSE IF GradeRejected(body.grade) THEN Respond(InvalidGrade)
  ELSE IF SubjectRejected(body.subject) THEN Respond(InvalidSubject)
  ELSE IF ContentTypeRejected(body.contentType) THEN Respond(InvalidContentType)
  ELSE IF LanguageRejected(body.language) THEN Respond(InvalidLanguage)
  ELSE Next_

\* language === "Kiswahili" ? "in Kiswahili" : "in English"
LanguageContext(language) ==
  IF language = Str(<<"Kiswahili">>) THEN <<"in Kiswahili">> ELSE <<"in English">>

CbcContext(gradeLabel, subject) ==
  <<"This is for the Kenyan CBC curriculum at ">> \o ToText(gradeLabel)
    \o (IF Truthy(subject) THEN <<" in ">> \o ToText(subject) ELSE <<>>)

\* contentPrompts[contentType]: undefined when the key is not in the table
generateCBCPrompt(topic, grade, subject, contentType, language) ==
  LET gradeLabel == GradeLookup(grade)
      head(t) == <<t, " \"">> \o ToText(topic) \o <<"\" ">> \o LanguageContext(language)
                   \o <<". ">> \o CbcContext(gradeLabel, subject) \o <<". ">>
  IN  CASE contentType = Str(<<"lesson-summary">>) ->
             Str(head("Create a concise lesson summary for") \o <<"Focus on key competencies">>)
        [] contentType = Str(<<"quiz">>) ->
             Str(head("Generate 5 multiple-choice questions for") \o <<"Format: Q1) Question?">>)
        [] contentType = Str(<<"activity">>) ->
             Str(head("Design a practical, real-life activity for students to learn")
                   \o <<"Include: Objective, Materials needed">>)
        [] contentType = Str(<<"assessment">>) ->
             Str(head("Create a competency-based assessment for") \o <<"Include rubric">>)
        [] contentType = Str(<<"explanation">>) ->
             Str(head("Explain") \o <<"Use local Kenyan examples">>)
        [] OTHER -> Undefined

----------------------------------------------------------------------------
(* Rich variant: the four generating handlers.  XTry is the try block up to *)
(* its await, XSuccess the rest of the try block once the gateway has       *)
(* answered, XCatch the catch block; XSync is the handler to its await: a   *)
(* throw inside the try block becomes the catch block's answer.             *)

GenerateTry(body) ==
  LET contentType == Default(body.contentType, Str(<<"lesson-summary">>))
      language    == Default(body.language, Str(<<"English">>))
  IN  Call(generateCBCPrompt(body.topic, body.grade, body.subject, contentType, language))

GenerateSuccess(body, content) ==
  Success([NoData EXCEPT
    !.topic = body.topic,
    !.grade = body.grade,
    !.gradeLabel = GradeLookup(body.grade),
    !.subject = OrElse(body.subject, Str(<<"General">>)),
    !.contentType = Default(body.contentType, Str(<<"lesson-summary">>)),
    !.language = Default(body.language, Str(<<"English">>)),
    !.content = content])

\* mutant of GenerateCatch: the error's message is not passed on
GenerateCatchNoDetails(message) == Failure(500, <<"Failed to generate content">>, Undefined)

GenerateCatch(message) == Failure(500, <<"Failed to generate content">>, Str(message))

\* app.post("/api/generate", validateGenerateRequest, async handler): the
\* middleware runs outside the handler's try block
GenerateSync(body) ==
  LET v == validateGenerateRequest(body)
      t == GenerateTry(body)
  IN  IF v.kind # "next" THEN v
      ELSE IF t.kind = "throw" THEN Respond(GenerateCatch(t.message))
      ELSE t

TeacherTry(body) ==
  LET language == Default(body.language, Str(<<"English">>))
      gradeLabel == GradeLookup(body.grade)
  IN  IF ~Truthy(body.topic) \/ ~Truthy(body.grade)
      THEN Respond(Failure(400, <<"Topic and grade are required">>, Undefined))
      ELSE Call(Str(<<"Create comprehensive teacher materials for \"">> \o ToText(body.topic)
                  \o <<"\" at ">> \o ToText(gradeLabel) \o <<" ">> \o LanguageContext(language)
                  \o <<". Include: 1) Learning objectives aligned with CBC competencies">>))

TeacherSuccess(body, content) ==
  Success([NoData EXCEPT
    !.topic = body.topic,
    !.grade = body.grade,
    !.gradeLabel = GradeLookup(body.grade),
    !.subject = OrElse(body.subject, Str(<<"General">>)),
    !.language = Default(body.language, Str(<<"English">>)),
    !.content = content])

TeacherCatch(message) == Failure(500, <<"Failed to generate teacher materials">>, Str(message))

TeacherSync(body) ==
  LET t == TeacherTry(body)
  IN  IF t.kind = "throw" THEN Respond(TeacherCatch(t.message)) ELSE t

ClarifyTry(body) ==
  LET language == Default(body.language, Str(<<"English">>))
      gradeLabel == GradeLookup(body.grade)
      languageContext == IF language = Str(<<"Kiswahili">>) THEN <<"Kiswahili">> ELSE <<"English">>
  IN  IF ~Truthy(body.previousContent) \/ ~Truthy(body.question) \/ ~Truthy(body.grade)
      THEN Respond(Failure(400, <<"previousContent, question, and grade are required">>, Undefined))
      ELSE Call(Str(<<"Based on this CBC content for ">> \o ToText(gradeLabel) \o <<": \"">>
                  \o ToText(body.previousContent) \o <<"\", answer this follow-up question: \"">>
                  \o ToText(body.question) \o <<"\" in ">> \o languageContext
                  \o <<". Be clear, age-appropriate, and competency-focused.">>))

ClarifySuccess(body, content) ==
  Success([NoData EXCEPT
    !.question = body.question,
    !.content = content,
    !.grade = body.grade])

ClarifyCatch(message) == Failure(500, <<"Failed to generate clarification">>, Str(message))

ClarifySync(body) ==
  LET t == ClarifyTry(body)
  IN  IF t.kind = "throw" THEN Respond(ClarifyCatch(t.message)) ELSE t

LearningPathTry(body) ==
  LET language == Default(body.language, Str(<<"English">>))
      startLabel == GradeLookup(body.startGrade)
      endLabel == GradeLookup(body.endGrade)
  IN  IF ~Truthy(body.topic) \/ ~Truthy(body.startGrade) \/ ~Truthy(body.endGrade)
      THEN Respond(Failure(400, <<"Topic, startGrade, and endGrade are required">>, Undefined))
      ELSE Call(Str(<<"Create a learning progression for \"">> \o ToText(body.topic)
                  \o <<"\" from ">> \o ToText(startLabel) \o <<" to ">> \o ToText(endLabel)
                  \o <<" ">> \o LanguageContext(language)
                  \o <<". For each level, outline: Competency to develop">>))

LearningPathSuccess(body, content) ==
  Success([NoData EXCEPT
    !.topic = body.topic,
    !.startGrade = GradeLookup(body.startGrade),
    !.endGrade = GradeLookup(body.endGrade),
    !.subject = OrElse(body.subject, Str(<<"Cross-curricular">>)),
    !.language = Default(body.language, Str(<<"English">>)),
    !.content = content])

LearningPathCatch(message) == Failure(500, <<"Failed to generate learning path">>, Str(message))

LearningPathSync(body) ==
  LET t == LearningPathTry(body)
  IN  IF t.kind = "throw" THEN Respond(LearningPathCatch(t.message)) ELSE t

----------------------------------------------------------------------------
(* Simple variant: POST /api/gemini *)

\* !topic || topic.trim() === "" : trim is called on every truthy topic
GeminiTry(body) ==
  IF ~Truthy(body.topic)
  THEN Respond(SimpleError(400, <<"Please provide a topic.">>))
  ELSE IF ~HasTrim(body.topic)
  THEN Throw(<<"topic.trim is not a function">>)
  ELSE IF Trim(body.topic.val) = <<>>
  THEN Respond(SimpleError(400, <<"Please provide a topic.">>))
  ELSE Call(Str(<<"You are an excellent Kenyan CBC Grade 6 teacher. Explain the topic \"">>
              \o ToText(body.topic) \o <<"\" simply. SUMMARY: QUIZ: ACTIVITY:">>))

GeminiSuccess(body, content) == SimpleOutput(content)

GeminiCatch(message) == SimpleError(500, <<"Failed to generate content">>)

\* mutant of GeminiSync: the handler body runs without its try/catch
GeminiNoCatch(body) == GeminiTry(body)

GeminiSync(body) ==
  LET t == GeminiTry(body)
  IN  IF t.kind = "throw" THEN Respond(GeminiCatch(t.message)) ELSE t

----------------------------------------------------------------------------
(* Dispatch by endpoint *)

RichEndpoints == {"/api/generate", "/api/teacher-materials", "/api/clarify", "/api/learning-path"}

SimpleEndpoints == {"/api/gemini"}

SyncOf(e, body) ==
  CASE e = "/api/generate"          -> GenerateSync(body)
    [] e = "/api/teacher-materials" -> TeacherSync(body)
    [] e = "/api/clarify"           -> ClarifySync(body)
    [] e = "/api/learning-path"     -> LearningPathSync(body)
    [] e = "/api/gemini"            -> GeminiSync(body)

SuccessOf(e, body, content) ==
  CASE e = "/api/generate"          -> GenerateSuccess(body, content)
    [] e = "/api/teacher-materials" -> TeacherSuccess(body, content)
    [] e = "/api/clarify"           -> ClarifySuccess(body, content)
    [] e = "/api/learning-path"     -> LearningPathSuccess(body, content)
    [] e = "/api/gemini"            -> GeminiSuccess(body, content)

CatchOf(e, message) ==
  CASE e = "/api/generate"          -> GenerateCatch(message)
    [] e = "/api/teacher-materials" -> TeacherCatch(message)
    [] e = "/api/clarify"           -> ClarifyCatch(message)
    [] e = "/api/learning-path"     -> LearningPathCatch(message)
    [] e = "/api/gemini"            -> GeminiCatch(message)

----------------------------------------------------------------------------
(* The completion gateway (model.generateContent): what it can answer *)

\* texts result.response.text() can return
Contents == {Str(<<"Q1)", " ", "...">>), Str(<<>>)}

\* messages of the errors generateContent rejects with
GatewayErrors ==
  {<<"[GoogleGenerativeAI Error]: Error fetching from the provider: fetch failed">>,
   <<"[GoogleGenerativeAI Error]: [400 Bad Request] API key not valid">>}

\* message of the error result.response.text() throws on a blocked response
BlockedError == <<"[GoogleGenerativeAI Error]: Text not available. Response was blocked">>

NoOutcome == [kind |-> "none", val |-> Undefined]

----------------------------------------------------------------------------
(* Requests *)

EmptyBody ==
  [topic |-> Undefined, grade |-> Undefined, subject |-> Undefined,
   contentType |-> Undefined, language |-> Undefined, previousContent |-> Undefined,
   question |-> Undefined, startGrade |-> Undefined, endGrade |-> Undefined]

IdleReq ==
  [pc |-> "idle", endpoint |-> "none", body |-> EmptyBody, calls |-> 0,
   prompt |-> Undefined, outcome |-> NoOutcome, resp |-> NoResp, sent |-> 0,
   escaped |-> FALSE]

\* res.status(..).json(..) / res.json(..): one more response on the wire
Send(req, resp) ==
  [req EXCEPT !.pc = "done", !.sent = @ + 1, !.resp = IF req.sent = 0 THEN resp ELSE @]

\* the synchronous run of the route: middleware, then the handler to its await
Dispatch(req) ==
  LET s == SyncOf(req.endpoint, req.body)
  IN  CASE s.kind = "respond" -> Send(req, s.resp)
        [] s.kind = "call"    -> [req EXCEPT !.pc = "awaiting", !.calls = @ + 1,
                                              !.prompt = s.prompt]
        [] OTHER              -> [req EXCEPT !.pc = "done", !.escaped = TRUE]

\* mutant of Resolved: the envelope is built from a module-level copy of the
\* request fields, which holds those of the request in the first slot
ResolvedShared(req, content) ==
  [req EXCEPT !.pc = "done", !.sent = @ + 1,
              !.outcome = [kind |-> "text", val |-> content],
              !.resp = SuccessOf(req.endpoint, reqs[1].body, content)]

\* await resolved and text() returned: the rest of the try block
Resolved(req, content) ==
  Send([req EXCEPT !.outcome = [kind |-> "text", val |-> content]],
       SuccessOf(req.endpoint, req.body, content))

\* mutant of Rejected: the first failure is answered by calling the gateway again
RejectedRetry(req, message) ==
  IF req.calls < 2
  THEN [req EXCEPT !.calls = @ + 1]
  ELSE [req EXCEPT !.pc = "done", !.sent = @ + 1,
                   !.outcome = [kind |-> "error", val |-> Str(message)],
                   !.resp = CatchOf(req.endpoint, message)]

\* await rejected, or text() threw: the catch block
Rejected(req, message) ==
  Send([req EXCEPT !.outcome = [kind |-> "error", val |-> Str(message)]],
       CatchOf(req.endpoint, message))

\* the limiter middleware on /api/: count the hit, then pass or answer 429
Limited(req, totalHits) ==
  IF totalHits > LimiterMax THEN Send(req, TooManyRequests)
  ELSE [req EXCEPT !.pc = "route"]

----------------------------------------------------------------------------
(* Inputs *)

TopicTexts == UNION {[1..n -> {" ", "x"}] : n \in 0..MaxTopicLen}

NonText == {Num("0"), Num("5"), Bool("false"), Bool("true"), Null, Obj, Arr}

GradeValues ==
  {Str(<<c>>) : c \in GradeCodes}
    \cup {Undefined, Str(<<>>), Str(<<"grade13">>), Num("6"), Arr}

FewGrades == {Undefined, Str(<<"grade6">>), Str(<<"pp1">>), Str(<<"grade13">>), Str(<<>>), Num("6"), Num("0")}

SubjectValues == {Undefined, Str(<<"Mathematics">>), Str(<<>>)} \cup NonText

ContentTypeValues ==
  {Str(<<ContentTypes[i]>>) : i \in 1..Len(ContentTypes)}
    \cup {Undefined, Str(<<"essay">>), Num("1")}

LanguageValues == {Undefined, Str(<<"English">>), Str(<<"Kiswahili">>), Str(<<"French">>)}

Bodies(e) ==
  CASE e = "/api/generate" ->
         {[EmptyBody EXCEPT !.topic = t, !.grade = g, !.subject = s,
                            !.contentType = c, !.language = l] :
            t \in {Undefined, Num("5"), Num("0")} \cup {Str(x) : x \in TopicTexts},
            g \in GradeValues, s \in SubjectValues,
            c \in ContentTypeValues, l \in LanguageValues}
    [] e = "/api/teacher-materials" ->
         {[EmptyBody EXCEPT !.topic = t, !.grade = g, !.subject = s, !.language = l] :
            t \in {Undefined, Str(<<"x">>), Str(<<>>), Num("5"), Num("0")},
            g \in FewGrades,
            s \in {Undefined, Str(<<"Mathematics">>), Num("0")},
            l \in LanguageValues}
    [] e = "/api/clarify" ->
         {[EmptyBody EXCEPT !.previousContent = p, !.question = q, !.grade = g,
                            !.language = l] :
            p \in {Undefined, Str(<<"x">>), Str(<<>>)},
            q \in {Undefined, Str(<<"x">>), Num("0")},
            g \in FewGrades, l \in LanguageValues}
    [] e = "/api/learning-path" ->
         {[EmptyBody EXCEPT !.topic = t, !.startGrade = a, !.endGrade = b,
                            !.subject = s, !.language = l] :
            t \in {Undefined, Str(<<"x">>), Num("5")},
            a \in FewGrades, b \in FewGrades,
            s \in {Undefined, Str(<<"Mathematics">>), Num("0")},
            l \in {Undefined, Str(<<"Kiswahili">>)}}
    [] e = "/api/gemini" ->
         {[EmptyBody EXCEPT !.topic = t] :
            t \in {Undefined} \cup NonText \cup {Str(x) : x \in TopicTexts}}

\* the bodies drawn when several requests are in flight together
FewBodies(e) ==
  CASE e = "/api/generate" ->
         {[EmptyBody EXCEPT !.topic = t, !.grade = Str(<<"grade6">>),
                            !.contentType = Str(<<"quiz">>), !.language = Str(<<"English">>)] :
            t \in {Undefined, Str(<<"x">>)}}
    [] e = "/api/gemini" ->
         {[EmptyBody EXCEPT !.topic = t] : t \in {Undefined, Str(<<"x">>), Num("5")}}

EndpointsOf(v) == IF v = "rich" THEN RichEndpoints ELSE SimpleEndpoints

\* process.env.GEMINI_API_KEY: unset, empty or set
Keys == {Undefined, Str(<<>>), Str(<<"key">>)}

----------------------------------------------------------------------------
(* State machine *)

Set(r, req) == reqs' = [reqs EXCEPT ![r] = req]

\* mutant of Startup: the credential is not looked at before listening
StartupUnchecked ==
  /\ server = "starting"
  /\ server' = "listening"
  /\ UNCHANGED <<variant, apiKey, hits, reqs>>

\* module top level: the rich variant exits when the credential is falsy
Startup ==
  /\ server = "starting"
  /\ server' = IF variant = "rich" /\ ~Truthy(apiKey) THEN "exited" ELSE "listening"
  /\ UNCHANGED <<variant, apiKey, hits, reqs>>

\* the server can take a request into slot r
CanReceive(r) ==
  /\ server = "listening"
  /\ reqs[r].pc = "idle"
  /\ hits <= LimiterMax

\* a request is received and its JSON body parsed; /api/ paths of the rich
\* variant go through the limiter first
Receive(r, e, b) ==
  /\ Set(r, [IdleReq EXCEPT !.pc = IF variant = "rich" THEN "limiter" ELSE "route",
                            !.endpoint = e, !.body = b])
  /\ UNCHANGED <<variant, apiKey, server, hits>>

Arrive(r) ==
  /\ CanReceive(r)
  /\ \E e \in EndpointsOf(variant) : \E b \in Bodies(e) : Receive(r, e, b)

ArriveFew(r) ==
  /\ CanReceive(r)
  /\ \E e \in EndpointsOf(variant) \cap {"/api/generate", "/api/gemini"} :
       \E b \in FewBodies(e) : Receive(r, e, b)

RateLimit(r) ==
  /\ reqs[r].pc = "limiter"
  /\ hits' = hits + 1
  /\ Set(r, Limited(reqs[r], hits'))
  /\ UNCHANGED <<variant, apiKey, server>>

\* the limiter's window (windowMs) ends: the client's count starts again
WindowReset ==
  /\ hits > 0
  /\ hits' = 0
  /\ UNCHANGED <<variant, apiKey, server, reqs>>

Route(r, e) ==
  /\ reqs[r].pc = "route"
  /\ reqs[r].endpoint = e
  /\ Set(r, Dispatch(reqs[r]))
  /\ UNCHANGED <<variant, apiKey, server, hits>>

Generate(r) == Route(r, "/api/generate")

TeacherMaterials(r) == Route(r, "/api/teacher-materials")

Clarify(r) == Route(r, "/api/clarify")

LearningPath(r) == Route(r, "/api/learning-path")

Gemini(r) == Route(r, "/api/gemini")

\* the provider answers with a text; it cannot without a credential
GatewayResolve(r) ==
  /\ reqs[r].pc = "awaiting"
  /\ Truthy(apiKey)
  /\ \E c \in Contents : Set(r, Resolved(reqs[r], c))
  /\ UNCHANGED <<variant, apiKey, server, hits>>

\* the provider answers, but the response is blocked: text() throws
ResponseBlocked(r) ==
  /\ reqs[r].pc = "awaiting"
  /\ Truthy(apiKey)
  /\ Set(r, Rejected(reqs[r], BlockedError))
  /\ UNCHANGED <<variant, apiKey, server, hits>>

\* generateContent rejects
GatewayReject(r) ==
  /\ reqs[r].pc = "awaiting"
  /\ \E m \in GatewayErrors : Set(r, Rejected(reqs[r], m))
  /\ UNCHANGED <<variant, apiKey, server, hits>>

\* the response is on the wire and the request object is dropped
Release(r) ==
  /\ reqs[r].pc = "done"
  /\ Set(r, IdleReq)
  /\ UNCHANGED <<variant, apiKey, server, hits>>

InitEnv ==
  /\ variant \in {"rich", "simple"}
  /\ apiKey \in Keys
  /\ server = "starting"
  /\ hits = 0

\* one request, any body
Init == InitEnv /\ reqs = [r \in {1} |-> IdleReq]

Next ==
  \/ Startup
  \/ \E r \in DOMAIN reqs : Arrive(r)
  \/ \E r \in DOMAIN reqs : RateLimit(r)
  \/ \E r \in DOMAIN reqs : Generate(r)
  \/ \E r \in DOMAIN reqs : TeacherMaterials(r)
  \/ \E r \in DOMAIN reqs : Clarify(r)
  \/ \E r \in DOMAIN reqs : LearningPath(r)
  \/ \E r \in DOMAIN reqs : Gemini(r)
  \/ \E r \in DOMAIN reqs : GatewayResolve(r)
  \/ \E r \in DOMAIN reqs : ResponseBlocked(r)
  \/ \E r \in DOMAIN reqs : GatewayReject(r)

Spec == Init /\ [][Next]_vars

\* several requests in flight, slots reused, the limiter's window running
InitConc == InitEnv /\ reqs = [r \in 1..MaxInFlight |-> IdleReq]

NextConc ==
  \/ Startup
  \/ WindowReset
  \/ \E r \in DOMAIN reqs : ArriveFew(r)
  \/ \E r \in DOMAIN reqs : RateLimit(r)
  \/ \E r \in DOMAIN reqs : Generate(r)
  \/ \E r \in DOMAIN reqs : Gemini(r)
  \/ \E r \in DOMAIN reqs : GatewayResolve(r)
  \/ \E r \in DOMAIN reqs : ResponseBlocked(r)
  \/ \E r \in DOMAIN reqs : GatewayReject(r)
  \/ \E r \in DOMAIN reqs : Release(r)

SpecConc == InitConc /\ [][NextConc]_vars

----------------------------------------------------------------------------
(* Properties *)

Reqs == DOMAIN reqs

\* the request was turned away by the limiter, before its route ran
OverLimit(q) == q.pc = "done" /\ q.resp = TooManyRequests

\* the route has run for the request: the validator and handler have acted
Dispatched(q) == q.pc \in {"awaiting", "done"} /\ ~OverLimit(q)

\* topic missing, empty or made of whitespace only
BlankTopic(b) ==
  \/ b.topic = Undefined
  \/ b.topic.type = "string" /\ \A i \in 1..Len(b.topic.val) : b.topic.val[i] \in WS

\* topic is a text with a non-whitespace character
ValidTopic(b) ==
  b.topic.type = "string" /\ \E i \in 1..Len(b.topic.val) : b.topic.val[i] \notin WS

\* v is one of the codes GET /api/metadata lists as supportedGrades
SupportedGrade(v) ==
  \E i \in 1..Len(MetadataSupportedGrades) : v = Str(<<MetadataSupportedGrades[i]>>)

\* v is a code with a label in the static grade table
HasLabel(v) == v.type = "string" /\ Len(v.val) = 1 /\ v.val[1] \in DOMAIN grades

IsText(v) == v.type = "string"

\* C1: a request to /api/generate or /api/gemini whose topic is missing, empty
\* or whitespace-only is answered 400 with the invalid-topic error, and the
\* gateway is never called for it.
C1_BlankTopicRejected ==
  \A r \in Reqs :
    LET q == reqs[r]
    IN  (/\ q.endpoint \in {"/api/generate", "/api/gemini"}
         /\ BlankTopic(q.body)
         /\ Dispatched(q))
        => /\ q.pc = "done"
           /\ q.calls = 0
           /\ q.sent = 1
           /\ q.resp.status = 400
           /\ q.resp.error =
                IF q.endpoint = "/api/generate"
                THEN Str(<<"Topic is required and must be a non-empty string">>)
                ELSE Str(<<"Please provide a topic.">>)

C1_Witness ==
  \E r \in Reqs :
    /\ reqs[r].endpoint = "/api/generate"
    /\ reqs[r].body.topic = Str(<<" ", " ">>)
    /\ reqs[r].pc = "done"
    /\ reqs[r].resp.status = 400

\* C2: a /api/generate request with valid topic, grade and subject that omits
\* contentType, language or both (any one given being valid) passes validation
\* with the defaults: it is not answered 400.
C2_DefaultsApplied ==
  \A r \in Reqs :
    LET q == reqs[r]
        b == q.body
    IN  (/\ q.endpoint = "/api/generate"
         /\ Dispatched(q)
         /\ ValidTopic(b)
         /\ SupportedGrade(b.grade)
         /\ (b.subject = Undefined \/ IsText(b.subject))
         /\ (b.contentType = Undefined \/ b.language = Undefined)
         /\ (b.contentType = Undefined \/ Includes(ContentTypes, b.contentType))
         /\ (b.language = Undefined \/ Includes(Languages, b.language)))
        => q.resp.status # 400

\* C3: a /api/generate request with a valid topic is answered with the
\* invalid-grade 400 exactly when its grade is not one of supportedGrades of
\* GET /api/metadata; the message lists every valid code; no gateway call is
\* made for a rejected request.
C3_GradeRejectedIffUnsupported ==
  \A r \in Reqs :
    LET q == reqs[r]
        gradeError == /\ q.resp.status = 400
                      /\ q.resp.error.type = "string"
                      /\ q.resp.error.val # <<>>
                      /\ Head(q.resp.error.val) = "Grade must be one of: "
    IN  (/\ q.endpoint = "/api/generate"
         /\ Dispatched(q)
         /\ ValidTopic(q.body))
        => /\ gradeError <=> ~SupportedGrade(q.body.grade)
           /\ gradeError =>
                /\ q.calls = 0
                /\ \A i \in 1..Len(MetadataSupportedGrades) :
                     \E j \in 1..Len(q.resp.error.val) :
                       q.resp.error.val[j] = MetadataSupportedGrades[i]

C3_Witness ==
  \E r \in Reqs :
    /\ reqs[r].endpoint = "/api/generate"
    /\ ValidTopic(reqs[r].body)
    /\ reqs[r].body.grade = Str(<<"grade13">>)
    /\ reqs[r].pc = "done"
    /\ reqs[r].resp.status = 400

\* C4: when the gateway call fails for a request that passed validation,
\* /api/generate answers 500 with success:false and a non-empty details field
\* carrying the provider's error detail, /api/gemini answers 500 with exactly
\* {error: "Failed to generate content"}; no 200 is sent for the request.
C4_GatewayFailureAnswered ==
  \A r \in Reqs :
    LET q == reqs[r]
    IN  q.outcome.kind = "error" =>
          /\ q.resp.status = 500
          /\ q.sent = 1
          /\ q.endpoint = "/api/generate" =>
               /\ q.resp.success = Bool("false")
               /\ q.resp.details = q.outcome.val
               /\ q.resp.details.type = "string"
               /\ q.resp.details.val # <<>>
          /\ q.endpoint = "/api/gemini" =>
               q.resp = [NoResp EXCEPT !.status = 500, !.kind = "json",
                                       !.error = Str(<<"Failed to generate content">>)]

C4_Witness ==
  \E r \in Reqs :
    /\ reqs[r].endpoint = "/api/generate"
    /\ reqs[r].outcome.kind = "error"
    /\ reqs[r].pc = "done"

\* the success envelope or a failure envelope of the variant
IsEnvelope(e, resp) ==
  /\ resp.kind = "json"
  /\ IF e = "/api/gemini"
     THEN \/ resp.status = 200 /\ IsText(resp.output) /\ resp.error = Undefined
          \/ resp.status \in {400, 500} /\ IsText(resp.error) /\ resp.output = Undefined
     ELSE \/ resp.status = 200 /\ resp.success = Bool("true") /\ resp.error = Undefined
          \/ resp.status \in {400, 500} /\ resp.success = Bool("false") /\ IsText(resp.error)

\* C5: for a request the route handles, whatever its body holds, no exception
\* escapes the validator or handler, and the request gets exactly one
\* response, the success envelope or a failure envelope.
C5_ErrorsCaught ==
  \A r \in Reqs :
    LET q == reqs[r]
    IN  /\ ~q.escaped
        /\ q.sent <= 1
        /\ (q.pc = "done" /\ Dispatched(q)) =>
             q.sent = 1 /\ IsEnvelope(q.endpoint, q.resp)

C5_Witness ==
  \E r \in Reqs :
    /\ reqs[r].endpoint = "/api/gemini"
    /\ reqs[r].body.topic = Num("5")
    /\ reqs[r].pc = "done"
    /\ reqs[r].sent = 1
    /\ reqs[r].resp.status = 500

\* C6: the rich variant never listens (and takes no request) while the
\* credential is missing; the simple variant does not exit on a missing
\* credential, and every request of it that reaches the gateway is answered 500.
C6_MissingCredential ==
  /\ (variant = "rich" /\ ~Truthy(apiKey)) =>
       /\ server # "listening"
       /\ \A r \in Reqs : reqs[r].pc = "idle"
  /\ (variant = "simple" /\ ~Truthy(apiKey)) =>
       /\ server # "exited"
       /\ \A r \in Reqs :
            (reqs[r].pc = "done" /\ reqs[r].calls > 0) =>
               reqs[r].resp = [NoResp EXCEPT !.status = 500, !.kind = "json",
                                             !.error = Str(<<"Failed to generate content">>)]

C6_Witness ==
  /\ variant = "simple"
  /\ apiKey = Undefined
  /\ server = "listening"
  /\ \E r \in Reqs : reqs[r].pc = "done" /\ reqs[r].calls = 1 /\ reqs[r].resp.status = 500

\* two finished requests with the same endpoint, body and gateway outcome
SameRequest(p, q) ==
  /\ p.pc = "done" /\ q.pc = "done"
  /\ p.endpoint = q.endpoint
  /\ p.body = q.body
  /\ p.outcome = q.outcome

\* while r waits for the gateway, the next step of s can be taken
OthersProceed(r, s) ==
  /\ reqs[s].pc = "route" => ENABLED (Generate(s) \/ Gemini(s))
  /\ reqs[s].pc = "awaiting" => ENABLED GatewayReject(s)
  /\ (reqs[s].pc = "awaiting" /\ Truthy(apiKey)) => ENABLED GatewayResolve(s)
  /\ reqs[s].pc = "done" => ENABLED Release(s)

\* C7 as stated: while one request waits for its gateway call every other
\* request can still be validated, call the gateway and be answered, and the
\* response to a request depends only on its own body and gateway outcome.
C7_Independent ==
  /\ \A r, s \in Reqs :
       (r # s /\ reqs[r].pc = "awaiting") =>
         /\ OthersProceed(r, s)
         /\ reqs[s].pc = "limiter" => ENABLED (RateLimit(s) /\ reqs'[s].pc = "route")
  /\ \A r, s \in Reqs :
       SameRequest(reqs[r], reqs[s]) => reqs[r].resp = reqs[s].resp

\* C7 amended: a waiting request never holds up another one; a request the
\* limiter admits (at most LimiterMax hits in the client's window) is answered
\* from its own body and gateway outcome alone; a request over the limit is
\* answered 429 with the limiter's message whatever its body.
C7_IndependentWhenAdmitted ==
  /\ \A r, s \in Reqs :
       (r # s /\ reqs[r].pc = "awaiting") =>
         /\ OthersProceed(r, s)
         /\ (reqs[s].pc = "limiter" /\ hits < LimiterMax) =>
              ENABLED (RateLimit(s) /\ reqs'[s].pc = "route")
         /\ (reqs[s].pc = "limiter" /\ hits >= LimiterMax) =>
              ENABLED (RateLimit(s) /\ reqs'[s].resp = TooManyRequests)
  /\ \A r, s \in Reqs :
       (SameRequest(reqs[r], reqs[s]) /\ ~OverLimit(reqs[r]) /\ ~OverLimit(reqs[s]))
         => reqs[r].resp = reqs[s].resp
  /\ \A r \in Reqs :
       (reqs[r].pc = "done" /\ reqs[r].resp.status = 429) =>
         /\ variant = "rich"
         /\ reqs[r].calls = 0
         /\ reqs[r].resp = TooManyRequests

C7_Witness ==
  \E r, s \in Reqs :
    /\ r # s
    /\ reqs[r].pc = "awaiting"
    /\ reqs[s].pc = "done"
    /\ reqs[s].resp = TooManyRequests
    /\ reqs[s].body = reqs[r].body

\* C8: in every endpoint that composes a prompt from a grade code, a code with
\* no label in the grade table makes composition fail: no gateway call and no
\* success envelope for such a request.
C8_UnknownGradeLabelFails ==
  \A r \in Reqs :
    LET q == reqs[r]
        unresolved ==
          \/ /\ q.endpoint \in {"/api/generate", "/api/teacher-materials", "/api/clarify"}
             /\ ~HasLabel(q.body.grade)
          \/ /\ q.endpoint = "/api/learning-path"
             /\ (~HasLabel(q.body.startGrade) \/ ~HasLabel(q.body.endGrade))
    IN  unresolved => q.calls = 0 /\ q.resp.status # 200

\* the route of the request ends in a gateway call: validation passes
PassesValidation(q) == SyncOf(q.endpoint, q.body).kind = "call"

\* C9: the gateway is called at most once per request: once, after validation
\* has passed and before any response, for a valid request; never for one
\* answered 400; never a second time after a failure.
C9_AtMostOneCall ==
  \A r \in Reqs :
    LET q == reqs[r]
    IN  /\ q.calls <= 1
        /\ q.pc = "awaiting" => q.calls = 1 /\ q.sent = 0
        /\ q.calls = 1 => PassesValidation(q)
        /\ (Dispatched(q) /\ PassesValidation(q)) => q.calls = 1
        /\ (q.pc = "done" /\ q.resp.status = 200) => q.calls = 1 /\ q.outcome.kind = "text"
        /\ q.resp.status = 400 => q.calls = 0
        /\ q.outcome.kind = "error" => q.pc = "done" /\ q.calls = 1

C9_Witness ==
  \E r \in Reqs :
    /\ reqs[r].pc = "done"
    /\ reqs[r].outcome.kind = "error"
    /\ reqs[r].calls = 1
    /\ reqs[r].resp.status = 500

\* C10: a /api/generate request with valid topic and grade whose subject is
\* present with a non-text value (falsy ones such as 0 or false included) is
\* answered with the invalid-subject 400 and makes no gateway call.
C10_NonTextSubjectRejected ==
  \A r \in Reqs :
    LET q == reqs[r]
    IN  (/\ q.endpoint = "/api/generate"
         /\ Dispatched(q)
         /\ ValidTopic(q.body)
         /\ SupportedGrade(q.body.grade)
         /\ q.body.subject # Undefined
         /\ ~IsText(q.body.subject))
        => /\ q.pc = "done"
           /\ q.calls = 0
           /\ q.resp.status = 400
           /\ q.resp.error = Str(<<"Subject must be a string">>)

====
